---- MODULE Spec2Model ----
(***************************************************************************)
(* Inventory management server (src/server.js): the product store kept in  *)
(* data/products.json, the notification history kept in                    *)
(* data/notifications.json, the process-wide revision, and the registry of *)
(* server-sent-event clients.                                              *)
(*                                                                         *)
(* The server is one Node.js process.  A request handler runs until its    *)
(* next await; the only awaits are getRequestBody (all handlers with a     *)
(* body) and dispatchNotification (notify).  Everything between two awaits *)
(* is one action of the model.                                             *)
(*                                                                         *)
(* Spec is the store under the full menu of product and restock bodies,    *)
(* with notifications on the configured channel and the subscribers of     *)
(* Subscribers, who stay.  HubSpec is the event hub with every client of   *)
(* Clients, closes, failing sockets, heartbeats and the product list, on a *)
(* clock that stands still.  ListSpec reads the product list while the     *)
(* clock moves.  DispatchSpec is the dispatcher under the full menu of     *)
(* notify bodies and of endpoint behaviours, with the fairness of the      *)
(* event loop.  AlertSpec and      *)
(* HistorySpec start the server over existing data files and serve         *)
(* GET /api/alerts and GET /api/notifications.                             *)
(***************************************************************************)
EXTENDS Integers, Sequences, FiniteSets, TLC

VARIABLES
  productsFile,       \* contents of DATA_FILE (an array of product records)
  notificationsFile,  \* contents of NOTIFICATION_FILE
  revision,           \* let revision (server.js:20)
  streamClients,      \* const streamClients = new Set() (server.js:21)
  stream,             \* stream[c]: frames written to c's response, socket open
  now,                \* the value Date.now() returned last, or would now
  uuid,               \* number of identifiers randomUUID() has handed out
  hooks,              \* process.env.EMAIL_WEBHOOK_URL / SMS_WEBHOOK_URL set?
  pc,                 \* pc[r]: where request r's handler is suspended
  req,                \* req[r]: what the handler of r knows at its await
  arrivals,           \* requests accepted so far
  last,               \* the response most recently sent
  cached,             \* DATA_FILE as it was when the latest request arrived
  serial,             \* the successful mutations applied one at a time
  baseQty,            \* baseQty[id]: quantity set by the last create/update
  restockSum,         \* restockSum[id]: deltas of the 200 restocks since
  events,             \* every frame emitStreamEvent has published
  mutations,          \* every writeProducts, by handler and record
  since,              \* since[c]: Len(events) when c registered
  conn,               \* conn[c]: the socket of c: "closed", "open", "destroyed"
  timers,             \* clients whose heartbeat interval is set
  beats,              \* beats[c]: heartbeat comments written to c's response
  gone,               \* gone[c]: Len(events) + 1 when c's close was handled, else 0
  got,                \* the body of the GET response most recently sent
  fetches,            \* calls of fetch(hook) made so far
  dropped             \* the handler that ended last wrote its response to a
                      \* destroyed socket: nothing was sent

vars == <<productsFile, notificationsFile, revision, streamClients, stream,
          now, uuid, hooks, pc, req, arrivals, last, cached, serial, baseQty,
          restockSum, events, mutations, since, conn, timers, beats, gone,
          got, fetches, dropped>>

\* What the handlers with a body leave alone.
hub == <<conn, timers, beats, gone, got>>

(***************************************************************************)
(* Bounds of the model.                                                    *)
(***************************************************************************)
MaxRequests == 3
MaxInFlight == 2
MaxClients == 2
MaxSubscribers == 1
MaxBeats == 1
MaxProducts == 5
MaxHistory == 3
MaxNow == 1
MaxTargetId == 1

Requests == 1..MaxInFlight
Clients == 1..MaxClients
Subscribers == 1..MaxSubscribers
TargetIds == 1..MaxTargetId

(***************************************************************************)
(* JavaScript values.  A number is an integer n, n + 0.5 (s = ".5") or NaN.*)
(***************************************************************************)
Undefined == [t |-> "undefined", n |-> 0, s |-> ""]
Null == [t |-> "null", n |-> 0, s |-> ""]
NaN == [t |-> "number", n |-> 0, s |-> "NaN"]
Num(i) == [t |-> "number", n |-> i, s |-> ""]
Half(i) == [t |-> "number", n |-> i, s |-> ".5"]
Str(x) == [t |-> "string", n |-> 0, s |-> x]
Bool(b) == [t |-> "boolean", n |-> IF b THEN 1 ELSE 0, s |-> ""]

Digits == <<"0", "1", "2", "3", "4", "5", "6", "7", "8", "9">>

RECURSIVE NatToStr(_)
NatToStr(i) ==
  IF i < 10 THEN Digits[i + 1] ELSE NatToStr(i \div 10) \o Digits[(i % 10) + 1]

IntToStr(i) == IF i < 0 THEN "-" \o NatToStr(-i) ELSE NatToStr(i)

HalfToStr(i) ==
  IF i >= 0 THEN NatToStr(i) \o ".5" ELSE "-" \o NatToStr(-i - 1) \o ".5"

\* The numeric literals the parser of the model recognises.
Literals == (-5..9) \cup {20, 100, 101, 150}

\* String.prototype.trim on the strings of the model.
Trim(x) ==
  CASE x = " " -> ""
    [] x = " 2 " -> "2"
    [] x = " A" -> "A"
    [] OTHER -> x

\* The decimal forms of the literals, integer and with the fraction .5
IntForms == [i \in Literals |-> IntToStr(i)]
HalfForms == [i \in Literals |-> HalfToStr(i)]

\* StringToNumber of ECMAScript on a trimmed string.
StringToNumber(x) ==
  IF x = "" THEN Num(0)
  ELSE IF \E i \in Literals : IntForms[i] = x
       THEN Num(CHOOSE i \in Literals : IntForms[i] = x)
  ELSE IF \E i \in Literals : HalfForms[i] = x
       THEN Half(CHOOSE i \in Literals : HalfForms[i] = x)
  ELSE NaN

\* String(v)
String(v) ==
  CASE v.t = "string" -> v.s
    [] v.t = "boolean" -> (IF v.n = 1 THEN "true" ELSE "false")
    [] v.t = "null" -> "null"
    [] v.t = "undefined" -> "undefined"
    [] v.t = "number" ->
         (IF v.s = "NaN" THEN "NaN"
          ELSE IF v.s = ".5" THEN HalfToStr(v.n) ELSE IntToStr(v.n))

\* Number(v)
Number(v) ==
  CASE v.t = "number" -> v
    [] v.t = "boolean" -> Num(v.n)
    [] v.t = "null" -> Num(0)
    [] v.t = "undefined" -> NaN
    [] v.t = "string" -> StringToNumber(Trim(v.s))

\* Number.isInteger(v)
IsInteger(v) == v.t = "number" /\ v.s = ""

\* a < b on numbers (every comparison with NaN is false)
LessThan(a, b) ==
  /\ a.s # "NaN" /\ b.s # "NaN"
  /\ IF a.s = ".5" /\ b.s = "" THEN a.n < b.n ELSE
     IF a.s = "" /\ b.s = ".5" THEN a.n <= b.n ELSE a.n < b.n

\* v <= 0 and v < 0 on numbers (every comparison with NaN is false)
LeqZero(v) == v.s # "NaN" /\ (IF v.s = ".5" THEN v.n < 0 ELSE v.n <= 0)
LtZero(v) == v.s # "NaN" /\ v.n < 0

\* a === b
StrictEquals(a, b) == a = b /\ a # NaN

\* !v
Falsy(v) ==
  \/ v.t \in {"undefined", "null"}
  \/ v = Str("")
  \/ v = Bool(FALSE)
  \/ v = Num(0)
  \/ v = NaN

\* JSON.parse(JSON.stringify(v)) on a field value: NaN is written as null.
JsonValue(v) == IF v = NaN THEN Null ELSE v

(***************************************************************************)
(* The product store.                                                      *)
(***************************************************************************)
required ==
  <<"productId", "productName", "category", "price", "quantity",
    "manufacturingDate", "supplier">>

\* payload[key] === undefined || payload[key] === null ||
\* String(payload[key]).trim() === ""
IsMissing(v) == v = Undefined \/ v = Null \/ Trim(String(v)) = ""

validateProductInput(payload) ==
  LET missing == {i \in DOMAIN required : IsMissing(payload[required[i]])}
      first == CHOOSE i \in missing : \A j \in missing : i <= j
  IN  IF missing # {} THEN Str(required[first] \o " is required")
      ELSE IF LeqZero(Number(payload.price))
        THEN Str("price must be greater than zero")
      ELSE IF ~IsInteger(Number(payload.quantity)) \/ LtZero(Number(payload.quantity))
        THEN Str("quantity must be a non-negative integer")
      ELSE Null

\* The record create and update build from a validated payload.
productFields(id, payload, time) ==
  [id |-> id,
   productId |-> Str(String(payload.productId)),
   productName |-> Str(String(payload.productName)),
   category |-> Str(String(payload.category)),
   price |-> Number(payload.price),
   quantity |-> Number(payload.quantity),
   manufacturingDate |-> Str(String(payload.manufacturingDate)),
   supplier |-> Str(String(payload.supplier)),
   updatedAt |-> time]

\* JSON.stringify of the array, as readProducts parses it back.
writeProducts(products) ==
  [i \in DOMAIN products |->
     [products[i] EXCEPT !.price = JsonValue(@), !.quantity = JsonValue(@)]]

\* A store that keeps the snapshot it read when the latest request arrived.
readProductsCached == cached

readProducts == productsFile

\* products.findIndex((p) => p.id === id), 0 for -1
findIndex(products, id) ==
  LET hits == {i \in DOMAIN products : products[i].id = id}
  IN  IF hits = {} THEN 0 ELSE CHOOSE i \in hits : \A j \in hits : i <= j

\* a + b on the numbers of the store
Plus(a, b) == IF IsInteger(a) /\ IsInteger(b) THEN Num(a.n + b.n) ELSE NaN

Reply(status, products, written, ref) ==
  [status |-> status, products |-> products, written |-> written, ref |-> ref]

\* POST /api/products after the body has been read
PostProducts(products, body, id, time) ==
  IF body.json = "malformed" THEN Reply(400, products, FALSE, 0)
  ELSE IF body.json = "null" THEN Reply(500, products, FALSE, 0)
  ELSE IF validateProductInput(body.obj) # Null THEN Reply(400, products, FALSE, 0)
  ELSE IF \E i \in DOMAIN products :
            StrictEquals(products[i].productId, body.obj.productId)
    THEN Reply(409, products, FALSE, 0)
  ELSE Reply(201, Append(products, productFields(id, body.obj, time)), TRUE, id)

\* A delta read without the default: Number(payload?.delta)
restockDeltaNoDefault(body) ==
  IF body.json = "null" THEN NaN ELSE Number(body.obj.delta)

\* Number(payload?.delta ?? 1)
restockDelta(body) ==
  IF body.json = "null" \/ body.obj.delta = Undefined \/ body.obj.delta = Null
  THEN Num(1) ELSE Number(body.obj.delta)

\* A restock that ignores the delta it validated and adds one.
PatchRestockByOne(products, id, body, time) ==
  LET delta == restockDelta(body)
      index == findIndex(products, id)
  IN  IF body.json = "malformed" THEN Reply(400, products, FALSE, 0)
      ELSE IF ~IsInteger(delta) \/ LeqZero(delta) THEN Reply(400, products, FALSE, 0)
      ELSE IF index = 0 THEN Reply(404, products, FALSE, 0)
      ELSE Reply(200,
                 [products EXCEPT ![index].quantity = Plus(@, Num(1)),
                                  ![index].updatedAt = time],
                 TRUE, id)

\* PATCH /api/products/:id/restock after the body has been read
PatchRestock(products, id, body, time) ==
  LET delta == restockDelta(body)
      index == findIndex(products, id)
  IN  IF body.json = "malformed" THEN Reply(400, products, FALSE, 0)
      ELSE IF ~IsInteger(delta) \/ LeqZero(delta) THEN Reply(400, products, FALSE, 0)
      ELSE IF index = 0 THEN Reply(404, products, FALSE, 0)
      ELSE Reply(200,
                 [products EXCEPT ![index].quantity = Plus(@, delta),
                                  ![index].updatedAt = time],
                 TRUE, id)

\* A delete that rewrites the file and publishes whether or not it found id.
DeleteProductsAlwaysWrites(products, id) ==
  LET nextProducts == SelectSeq(products, LAMBDA p : p.id # id)
  IN  IF Len(nextProducts) = Len(products) THEN Reply(404, products, TRUE, id)
      ELSE Reply(204, nextProducts, TRUE, id)

\* DELETE /api/products/:id
DeleteProducts(products, id) ==
  LET nextProducts == SelectSeq(products, LAMBDA p : p.id # id)
  IN  IF Len(nextProducts) = Len(products) THEN Reply(404, products, FALSE, 0)
      ELSE Reply(204, nextProducts, TRUE, id)

\* An update that takes the record out and appends its replacement.
PutProductsAtEnd(products, id, body, time) ==
  LET index == findIndex(products, id)
  IN  IF body.json = "malformed" THEN Reply(400, products, FALSE, 0)
      ELSE IF body.json = "null" THEN Reply(500, products, FALSE, 0)
      ELSE IF validateProductInput(body.obj) # Null THEN Reply(400, products, FALSE, 0)
      ELSE IF index = 0 THEN Reply(404, products, FALSE, 0)
      ELSE IF \E i \in DOMAIN products :
                /\ products[i].id # id
                /\ StrictEquals(products[i].productId, body.obj.productId)
        THEN Reply(409, products, FALSE, 0)
      ELSE Reply(200,
                 Append(SelectSeq(products, LAMBDA p : p.id # id),
                        productFields(id, body.obj, time)),
                 TRUE, id)

\* PUT /api/products/:id after the body has been read
PutProducts(products, id, body, time) ==
  LET index == findIndex(products, id)
  IN  IF body.json = "malformed" THEN Reply(400, products, FALSE, 0)
      ELSE IF body.json = "null" THEN Reply(500, products, FALSE, 0)
      ELSE IF validateProductInput(body.obj) # Null THEN Reply(400, products, FALSE, 0)
      ELSE IF index = 0 THEN Reply(404, products, FALSE, 0)
      ELSE IF \E i \in DOMAIN products :
                /\ products[i].id # id
                /\ StrictEquals(products[i].productId, body.obj.productId)
        THEN Reply(409, products, FALSE, 0)
      ELSE Reply(200,
                 [products EXCEPT ![index] = productFields(@.id, body.obj, time)],
                 TRUE, id)

\* An evaluation whose low-stock threshold includes 5.
computeAlertsUpToFive(products) ==
  LET lowStockItems == SelectSeq(products, LAMBDA p : ~LessThan(Num(5), p.quantity))
      outOfStockItems == SelectSeq(products, LAMBDA p : StrictEquals(p.quantity, Num(0)))
  IN  [lowStockCount |-> Len(lowStockItems),
       outOfStockCount |-> Len(outOfStockItems),
       lowStockItems |->
         [i \in DOMAIN lowStockItems |->
            [id |-> lowStockItems[i].id, productId |-> lowStockItems[i].productId,
             productName |-> lowStockItems[i].productName,
             quantity |-> lowStockItems[i].quantity,
             supplier |-> lowStockItems[i].supplier]]]

\* An evaluation that keeps the records of quantity 0 out of the low stock.
computeAlertsNonzeroLow(products) ==
  LET lowStockItems ==
        SelectSeq(products, LAMBDA p : /\ LessThan(p.quantity, Num(5))
                                       /\ ~StrictEquals(p.quantity, Num(0)))
      outOfStockItems == SelectSeq(products, LAMBDA p : StrictEquals(p.quantity, Num(0)))
  IN  [lowStockCount |-> Len(lowStockItems),
       outOfStockCount |-> Len(outOfStockItems),
       lowStockItems |->
         [i \in DOMAIN lowStockItems |->
            [id |-> lowStockItems[i].id, productId |-> lowStockItems[i].productId,
             productName |-> lowStockItems[i].productName,
             quantity |-> lowStockItems[i].quantity,
             supplier |-> lowStockItems[i].supplier]]]

\* computeAlerts(products) (server.js:94-102)
computeAlerts(products) ==
  LET lowStockItems == SelectSeq(products, LAMBDA p : LessThan(p.quantity, Num(5)))
      outOfStockItems == SelectSeq(products, LAMBDA p : StrictEquals(p.quantity, Num(0)))
  IN  [lowStockCount |-> Len(lowStockItems),
       outOfStockCount |-> Len(outOfStockItems),
       lowStockItems |->
         [i \in DOMAIN lowStockItems |->
            [id |-> lowStockItems[i].id, productId |-> lowStockItems[i].productId,
             productName |-> lowStockItems[i].productName,
             quantity |-> lowStockItems[i].quantity,
             supplier |-> lowStockItems[i].supplier]]]

(***************************************************************************)
(* Request bodies the clients of the model send.                           *)
(***************************************************************************)
BasePayload ==
  [productId |-> Str("A"), productName |-> Str("Widget"), category |-> Str("Tools"),
   price |-> Num(10), quantity |-> Num(3),
   manufacturingDate |-> Str("2024-01-01"), supplier |-> Str("Acme")]

\* Payloads validateProductInput accepts ...
ValidPayloads ==
  {BasePayload,
   [BasePayload EXCEPT !.productId = Num(7), !.price = Half(0),
                       !.quantity = Str(" 2 ")],
   [BasePayload EXCEPT !.productId = Str("B"), !.price = Str("abc")],
   [BasePayload EXCEPT !.productId = Str("B"), !.quantity = Num(0)]}

\* ... and payloads it may reject.
ProductPayloads ==
  ValidPayloads
  \cup {[BasePayload EXCEPT !.productId = Str(" ")],
        [BasePayload EXCEPT !.supplier = Undefined],
        [BasePayload EXCEPT !.price = Num(0)],
        [BasePayload EXCEPT !.price = Num(-1)],
        [BasePayload EXCEPT !.quantity = Num(-1)],
        [BasePayload EXCEPT !.quantity = Half(1)],
        [BasePayload EXCEPT !.quantity = Str("abc")]}

NoPayload == [k \in {"none"} |-> Undefined]
Malformed == [json |-> "malformed", obj |-> NoPayload]
NullBody == [json |-> "null", obj |-> NoPayload]
Object(o) == [json |-> "object", obj |-> o]

ProductBodies == {Object(p) : p \in ProductPayloads} \cup {Malformed, NullBody}

RestockBodies ==
  {Object([delta |-> v]) :
     v \in {Undefined, Num(1), Num(5), Num(0), Num(-1), Half(1), Str("abc")}}
  \cup {Malformed, NullBody}

(***************************************************************************)
(* The notification dispatcher.                                            *)
(***************************************************************************)
\* String(payload?.x || "") for x in channel, recipient, message
StringOr(body, key) ==
  IF body.json # "object" \/ Falsy(body.obj[key]) THEN "" ELSE String(body.obj[key])

\* toLowerCase on the channel names of the model
ToLowerCase(x) ==
  CASE x = "SMS" -> "sms"
    [] x = "Email" -> "email"
    [] OTHER -> x

\* payload?.subject || "Inventory Alert"
subjectOf(body) ==
  IF body.json # "object" \/ Falsy(body.obj.subject)
  THEN Str("Inventory Alert") ELSE body.obj.subject

\* What the handler keeps across await dispatchNotification.
notifyInput(body) ==
  [channel |-> ToLowerCase(StringOr(body, "channel")),
   recipient |-> Trim(StringOr(body, "recipient")),
   subject |-> subjectOf(body),
   message |-> Trim(StringOr(body, "message"))]

NoNotify == [channel |-> "", recipient |-> "", subject |-> Undefined, message |-> ""]

\* The input checks of POST /api/alerts/notify: the status they answer, 0 if none
notifyChecks(body) ==
  IF body.json = "malformed" THEN 400
  ELSE IF notifyInput(body).channel \notin {"email", "sms"} THEN 400
  ELSE IF notifyInput(body).recipient = "" \/ notifyInput(body).message = "" THEN 400
  ELSE 0

\* const hook = channel === "email" ? EMAIL_WEBHOOK_URL : SMS_WEBHOOK_URL
hookOf(channel) == IF channel = "email" THEN hooks.email ELSE hooks.sms

\* A dispatcher that tries the endpoint a second time.
fetchCallsWithRetry(channel) == IF hookOf(channel) THEN 2 ELSE 0

\* The calls of fetch dispatchNotification makes: none without a hook
\* (server.js:130), one otherwise (server.js:132)
fetchCalls(channel) == IF hookOf(channel) THEN 1 ELSE 0

\* What fetch(hook) does: a 2xx response, another response, or a rejection.
FetchOutcomes == {"ok", "status", "reject"}

\* ... and the rejection the runtime's fetch makes of an attempt whose
\* endpoint has sent no response headers within its limit.
SettledOutcomes == FetchOutcomes \cup {"timeout"}

\* A fetch that waits for response headers without limit.
fetchSettlesNoLimit(at, outcome) == at = "dispatch" /\ outcome \in FetchOutcomes

\* The promise of await fetch(hook) (server.js:132) settles: with what the
\* endpoint did, or, the endpoint never answering, with the runtime's
\* rejection.
fetchSettles(at, outcome) ==
  \/ at = "dispatch" /\ outcome \in FetchOutcomes
  \/ at = "hung" /\ outcome = "timeout"

\* A dispatcher that does not look at response.ok.
dispatchNotificationAnyStatus(channel, outcome) ==
  IF ~hookOf(channel)
    THEN [delivered |-> FALSE, mode |-> "log-only", message |-> "Webhook not configured"]
  ELSE IF outcome \in {"ok", "status"}
    THEN [delivered |-> TRUE, mode |-> "webhook", message |-> "Delivered to webhook"]
  ELSE [delivered |-> FALSE, mode |-> "webhook", message |-> "fetch failed"]

dispatchNotification(channel, outcome) ==
  IF ~hookOf(channel)
    THEN [delivered |-> FALSE, mode |-> "log-only", message |-> "Webhook not configured"]
  ELSE IF outcome = "status"
    THEN [delivered |-> FALSE, mode |-> "webhook", message |-> "Webhook failed"]
  ELSE IF outcome = "ok"
    THEN [delivered |-> TRUE, mode |-> "webhook", message |-> "Delivered to webhook"]
  ELSE [delivered |-> FALSE, mode |-> "webhook", message |-> "fetch failed"]

notificationItem(id, n, dispatch, time) ==
  [id |-> id, channel |-> n.channel, recipient |-> n.recipient, subject |-> n.subject,
   message |-> n.message, delivered |-> dispatch.delivered, mode |-> dispatch.mode,
   resultMessage |-> dispatch.message, createdAt |-> time]

readNotifications == notificationsFile

\* A handler that puts the new record in front of the history.
pushNotificationInFront(history, item) == <<item>> \o history

\* A handler that puts the new record in the place of the latest one.
pushNotificationOverLatest(history, item) ==
  IF history = <<>> THEN <<item>> ELSE [history EXCEPT ![Len(history)] = item]

\* history.push(item), the array then written by writeNotifications
\* (server.js:199-201)
pushNotification(history, item) == Append(history, item)

NotifyBodies ==
  {Object([channel |-> c, recipient |-> Str("ops@example.com"),
           subject |-> Undefined, message |-> Str("Low stock")]) :
     c \in {Str("email"), Str("SMS"), Str("fax"), Undefined}}
  \cup {Object([channel |-> Str("sms"), recipient |-> Str(" "),
                subject |-> Str("Stock"), message |-> Str("Low stock")]),
        Object([channel |-> Str("sms"), recipient |-> Str("ops@example.com"),
                subject |-> Str("Stock"), message |-> Str("Low stock")]),
        Malformed, NullBody}

\* The notify bodies sent while the store is exercised: the configured
\* channel and a rejected body.
StoreNotifyBodies ==
  {Object([channel |-> Str("email"), recipient |-> Str("ops@example.com"),
           subject |-> Undefined, message |-> Str("Low stock")]),
   Malformed}

(***************************************************************************)
(* The event stream.                                                       *)
(***************************************************************************)
Frame(type, rev, ref, detail) ==
  [type |-> type, revision |-> rev, ref |-> ref, detail |-> detail]

Connected == Frame(": connected", 0, 0, Undefined)

\* client.write(chunk): a chunk written to a destroyed socket is dropped and
\* write returns false; nothing is thrown.
Written(c) == conn[c] = "open"

\* A fan-out that puts the newest frame first on each client.
emitStreamEventNewestFirst(type, rev, ref, detail) ==
  /\ now' = rev
  /\ revision' = rev
  /\ stream' = [c \in Clients |->
                  IF c \in streamClients /\ Written(c)
                  THEN <<Frame(type, rev, ref, detail)>> \o stream[c]
                  ELSE stream[c]]
  /\ events' = Append(events, Frame(type, rev, ref, detail))

\* A fan-out that a failed write ends: the clients after it get nothing.
emitStreamEventStopsAtFailure(type, rev, ref, detail) ==
  /\ now' = rev
  /\ revision' = rev
  /\ stream' = [c \in Clients |->
                  IF /\ c \in streamClients
                     /\ \A d \in streamClients : d <= c => Written(d)
                  THEN Append(stream[c], Frame(type, rev, ref, detail))
                  ELSE stream[c]]
  /\ events' = Append(events, Frame(type, rev, ref, detail))

\* emitStreamEvent(type, details): revision = Date.now() (server.js:105) is a
\* reading of its own, rev, taken after the handler stamped its record and
\* wrote the file; the clock may have moved on in between.
emitStreamEvent(type, rev, ref, detail) ==
  /\ now' = rev
  /\ revision' = rev
  /\ stream' = [c \in Clients |->
                  IF c \in streamClients /\ Written(c)
                  THEN Append(stream[c], Frame(type, rev, ref, detail))
                  ELSE stream[c]]
  /\ events' = Append(events, Frame(type, rev, ref, detail))

NoEvent == UNCHANGED <<now, revision, stream, events>>

(***************************************************************************)
(* State after server.listen, with empty data files.                       *)
(***************************************************************************)
NoRequest == [kind |-> "none", id |-> 0, n |-> NoNotify]
NoResponse ==
  [kind |-> "none", status |-> 0, id |-> 0, json |-> "none", arg |-> Undefined,
   others |-> 0]

NoAnswer == [route |-> "none"]

\* Everything but the two data files.
Listening ==
  /\ now = 0
  /\ revision = now
  /\ streamClients = {}
  /\ stream = [c \in Clients |-> <<>>]
  /\ uuid = 0
  /\ hooks = [email |-> TRUE, sms |-> FALSE]
  /\ pc = [r \in Requests |-> "idle"]
  /\ req = [r \in Requests |-> NoRequest]
  /\ arrivals = 0
  /\ last = NoResponse
  /\ cached = productsFile
  /\ serial = productsFile
  /\ baseQty = <<>>
  /\ restockSum = <<>>
  /\ events = <<>>
  /\ mutations = <<>>
  /\ since = [c \in Clients |-> 0]
  /\ conn = [c \in Clients |-> "closed"]
  /\ timers = {}
  /\ beats = [c \in Clients |-> 0]
  /\ gone = [c \in Clients |-> 0]
  /\ got = NoAnswer
  /\ fetches = 0
  /\ dropped = FALSE

Init ==
  /\ productsFile = <<>>
  /\ notificationsFile = <<>>
  /\ Listening

\* Requests other than r whose handlers are suspended at an await.
Others(r) == Cardinality({q \in Requests : q # r /\ pc[q] # "idle"})

Response(kind, status, id, json, arg, others) ==
  [kind |-> kind, status |-> status, id |-> id, json |-> json, arg |-> arg,
   others |-> others]

\* The business key a product body carries, the delta a restock body carries.
keyOf(body) == IF body.json = "object" THEN body.obj.productId ELSE Undefined
deltaOf(body) == IF body.json = "object" THEN body.obj.delta ELSE Undefined

\* What a later Date.now() of the handler running now can return.
Readings == now..MaxNow

\* Date.now() moves on between two handlers.
Tick ==
  /\ now < MaxNow
  /\ now' = now + 1
  /\ UNCHANGED <<hub, fetches, productsFile, notificationsFile, revision, streamClients, stream,
                 uuid, hooks, pc, req, arrivals, last, dropped, cached, serial, baseQty,
                 restockSum, events, mutations, since>>

\* A request with a body arrives; its handler awaits getRequestBody.
Receive(r, kind, id) ==
  /\ pc[r] = "idle"
  /\ arrivals < MaxRequests
  /\ arrivals' = arrivals + 1
  /\ pc' = [pc EXCEPT ![r] = "body"]
  /\ req' = [req EXCEPT ![r] = [kind |-> kind, id |-> id, n |-> NoNotify]]
  /\ cached' = productsFile
  /\ UNCHANGED <<hub, fetches, productsFile, notificationsFile, revision, streamClients, stream,
                 now, uuid, hooks, last, dropped, serial, baseQty, restockSum, events,
                 mutations, since>>

\* A handler that publishes and replies with the file still to be written.
PersistLater(kind, out, ser) ==
  /\ productsFile' = productsFile
  /\ serial' = IF out.written THEN writeProducts(ser.products) ELSE serial
  /\ mutations' = IF out.written
                  THEN Append(mutations, [kind |-> kind, id |-> out.ref])
                  ELSE mutations

\* The store and its history after a handler's reply.
Persist(kind, out, ser) ==
  /\ productsFile' = IF out.written THEN writeProducts(out.products) ELSE productsFile
  /\ serial' = IF out.written THEN writeProducts(ser.products) ELSE serial
  /\ mutations' = IF out.written
                  THEN Append(mutations, [kind |-> kind, id |-> out.ref])
                  ELSE mutations

Finish(r) ==
  /\ pc' = [pc EXCEPT ![r] = "idle"]
  /\ req' = [req EXCEPT ![r] = NoRequest]

\* getRequestBody rejects (server.js:69-72 the body grew over 1024 * 1024
\* characters and the request is destroyed; server.js:75 the request emitted
\* "error"): the handler ends in the catch of server.js:272-274 and none of
\* its route logic has run.  sendJson(res, 500) writes to a socket that is
\* destroyed already: no response is sent.
getRequestBodyRejects(r) ==
  /\ pc[r] = "body"
  /\ dropped' = TRUE
  /\ Finish(r)
  /\ UNCHANGED <<hub, fetches, productsFile, notificationsFile, revision, streamClients, stream,
                 now, uuid, hooks, arrivals, last, cached, serial, baseQty, restockSum,
                 events, mutations, since>>

\* POST /api/products (server.js:207-220)
CreateProduct(r, body, rev) ==
  /\ pc[r] = "body" /\ req[r].kind = "create"
  /\ rev \in Readings
  /\ \E out \in {PostProducts(readProducts, body, uuid + 1, now)},
        ser \in {PostProducts(serial, body, uuid + 1, now)} :
         /\ Persist("create", out, ser)
         /\ uuid' = IF out.written THEN uuid + 1 ELSE uuid
         /\ IF out.written
            THEN /\ emitStreamEvent("product_created", rev, out.ref, Undefined)
                 /\ baseQty' = (out.ref :> out.products[Len(out.products)].quantity.n)
                                 @@ baseQty
                 /\ restockSum' = (out.ref :> 0) @@ restockSum
            ELSE NoEvent /\ UNCHANGED <<baseQty, restockSum>>
         /\ last' = Response("create", out.status, out.ref, body.json, keyOf(body), Others(r))
         /\ dropped' = FALSE
  /\ Finish(r)
  /\ UNCHANGED <<hub, fetches, notificationsFile, streamClients, hooks, arrivals, cached, since>>

\* PATCH /api/products/:id/restock (server.js:222-237)
RestockProduct(r, body, rev) ==
  /\ pc[r] = "body" /\ req[r].kind = "restock"
  /\ rev \in Readings
  /\ LET id == req[r].id
     IN \E out \in {PatchRestock(readProducts, id, body, now)},
           ser \in {PatchRestock(serial, id, body, now)} :
         /\ Persist("restock", out, ser)
         /\ IF out.written
            THEN /\ emitStreamEvent("product_restocked", rev, id, restockDelta(body))
                 /\ restockSum' = [restockSum EXCEPT ![id] = @ + restockDelta(body).n]
            ELSE NoEvent /\ UNCHANGED restockSum
         /\ last' = Response("restock", out.status, id, body.json, deltaOf(body), Others(r))
         /\ dropped' = FALSE
  /\ Finish(r)
  /\ UNCHANGED <<hub, fetches, notificationsFile, streamClients, uuid, hooks, arrivals, cached,
                 baseQty, since>>

\* PUT /api/products/:id (server.js:254-268)
UpdateProduct(r, body, rev) ==
  /\ pc[r] = "body" /\ req[r].kind = "update"
  /\ rev \in Readings
  /\ LET id == req[r].id
     IN \E out \in {PutProducts(readProducts, id, body, now)},
           ser \in {PutProducts(serial, id, body, now)} :
         /\ Persist("update", out, ser)
         /\ IF out.written
            THEN /\ emitStreamEvent("product_updated", rev, id, Undefined)
                 /\ baseQty' = [baseQty EXCEPT
                                  ![id] = out.products[findIndex(out.products, id)].quantity.n]
                 /\ restockSum' = [restockSum EXCEPT ![id] = 0]
            ELSE NoEvent /\ UNCHANGED <<baseQty, restockSum>>
         /\ last' = Response("update", out.status, id, body.json, keyOf(body), Others(r))
         /\ dropped' = FALSE
  /\ Finish(r)
  /\ UNCHANGED <<hub, fetches, notificationsFile, streamClients, uuid, hooks, arrivals, cached,
                 since>>

\* DELETE /api/products/:id (server.js:243-252): no await, one step from
\* arrival; its only reading of the clock is the one of emitStreamEvent
DeleteProduct(id) ==
  /\ arrivals < MaxRequests
  /\ arrivals' = arrivals + 1
  /\ cached' = productsFile
  /\ LET out == DeleteProducts(readProducts, id)
         ser == DeleteProducts(serial, id)
     IN  /\ Persist("delete", out, ser)
         /\ IF out.written
            THEN emitStreamEvent("product_deleted", now, id, Undefined)
            ELSE NoEvent
         /\ last' = Response("delete", out.status, id, "none", Undefined, Others(0))
         /\ dropped' = FALSE
  /\ UNCHANGED <<hub, fetches, notificationsFile, streamClients, uuid, hooks, pc, req,
                 baseQty, restockSum, since>>

\* POST /api/alerts/notify up to await dispatchNotification (server.js:173-187)
NotifyStart(r, body) ==
  /\ pc[r] = "body" /\ req[r].kind = "notify"
  /\ IF notifyChecks(body) # 0
     THEN /\ Finish(r)
          /\ last' = Response("notify", notifyChecks(body), 0, body.json, Undefined, Others(r))
          /\ dropped' = FALSE
          /\ UNCHANGED fetches
     ELSE /\ pc' = [pc EXCEPT ![r] = "dispatch"]
          /\ req' = [req EXCEPT ![r].n = notifyInput(body)]
          /\ fetches' = fetches + fetchCalls(notifyInput(body).channel)
          /\ UNCHANGED <<last, dropped>>
  /\ UNCHANGED <<hub, productsFile, notificationsFile, revision, streamClients, stream,
                 now, uuid, hooks, arrivals, cached, serial, baseQty, restockSum,
                 events, mutations, since>>

\* POST /api/alerts/notify from the dispatch outcome on (server.js:183-203).
\* The client may have closed its connection during await
\* dispatchNotification: the record is appended and the event published all
\* the same, and sendJson(res, 201) writes to a destroyed socket (connected
\* is FALSE): no response is sent.
NotifyFinish(r, outcome, rev, connected) ==
  /\ fetchSettles(pc[r], outcome)
  /\ rev \in Readings
  /\ LET n == req[r].n
         item == notificationItem(uuid + 1, n, dispatchNotification(n.channel, outcome), now)
     IN  /\ notificationsFile' = pushNotification(readNotifications, item)
         /\ uuid' = uuid + 1
         /\ emitStreamEvent("notification_sent", rev, item.id, Str(n.channel))
         /\ IF connected
            THEN /\ last' = Response("notify", 201, item.id, "object", Str(outcome), Others(r))
                 /\ dropped' = FALSE
            ELSE /\ last' = last
                 /\ dropped' = TRUE
  /\ Finish(r)
  /\ UNCHANGED <<hub, fetches, productsFile, streamClients, hooks, arrivals, cached, serial,
                 baseQty, restockSum, mutations, since>>

\* GET /api/stream: registerStreamClient (server.js:113-119)
registerStreamClient(c) ==
  /\ c \notin streamClients
  /\ streamClients' = streamClients \cup {c}
  /\ conn' = [conn EXCEPT ![c] = "open"]
  /\ stream' = [stream EXCEPT ![c] = <<Connected>>]
  /\ since' = [since EXCEPT ![c] = Len(events)]
  /\ timers' = timers \cup {c}
  /\ beats' = [beats EXCEPT ![c] = 0]
  /\ gone' = [gone EXCEPT ![c] = 0]
  /\ UNCHANGED <<got, fetches, productsFile, notificationsFile, revision, now, uuid, hooks, pc,
                 req, arrivals, last, dropped, cached, serial, baseQty, restockSum, events,
                 mutations>>

\* A close handler that leaves the heartbeat interval set.
CloseStreamKeepsInterval(c) ==
  /\ c \in streamClients
  /\ streamClients' = streamClients \ {c}
  /\ conn' = [conn EXCEPT ![c] = "closed"]
  /\ stream' = [stream EXCEPT ![c] = <<>>]
  /\ since' = [since EXCEPT ![c] = 0]
  /\ timers' = timers
  /\ beats' = [beats EXCEPT ![c] = 0]
  /\ gone' = [gone EXCEPT ![c] = Len(events) + 1]
  /\ UNCHANGED <<got, fetches, productsFile, notificationsFile, revision, now, uuid, hooks, pc,
                 req, arrivals, last, dropped, cached, serial, baseQty, restockSum, events,
                 mutations>>

\* req.on("close") of a stream client (server.js:118)
CloseStream(c) ==
  /\ c \in streamClients
  /\ streamClients' = streamClients \ {c}
  /\ conn' = [conn EXCEPT ![c] = "closed"]
  /\ stream' = [stream EXCEPT ![c] = <<>>]
  /\ since' = [since EXCEPT ![c] = 0]
  /\ timers' = timers \ {c}
  /\ beats' = [beats EXCEPT ![c] = 0]
  /\ gone' = [gone EXCEPT ![c] = Len(events) + 1]
  /\ UNCHANGED <<got, fetches, productsFile, notificationsFile, revision, now, uuid, hooks, pc,
                 req, arrivals, last, dropped, cached, serial, baseQty, restockSum, events,
                 mutations>>

\* The socket of a stream client fails (reset, timeout); its "close" event
\* is emitted later, in CloseStream.
DestroySocket(c) ==
  /\ c \in streamClients /\ conn[c] = "open"
  /\ conn' = [conn EXCEPT ![c] = "destroyed"]
  /\ UNCHANGED <<timers, beats, gone, got, fetches, productsFile, notificationsFile, revision,
                 streamClients, stream, now, uuid, hooks, pc, req, arrivals, last, dropped,
                 cached, serial, baseQty, restockSum, events, mutations, since>>

\* The interval of client c fires (server.js:117): res.write(": heartbeat\n\n")
Heartbeat(c) ==
  /\ c \in timers
  /\ beats[c] < MaxBeats
  /\ beats' = [beats EXCEPT ![c] = IF Written(c) THEN @ + 1 ELSE @]
  /\ UNCHANGED <<conn, timers, gone, got, fetches, productsFile, notificationsFile, revision,
                 streamClients, stream, now, uuid, hooks, pc, req, arrivals, last, dropped,
                 cached, serial, baseQty, restockSum, events, mutations, since>>

Next ==
  \/ Tick
  \/ \E r \in Requests : Receive(r, "create", 0)
  \/ \E r \in Requests, id \in TargetIds, k \in {"update", "restock"} : Receive(r, k, id)
  \/ \E r \in Requests : Receive(r, "notify", 0)
  \/ \E r \in Requests : getRequestBodyRejects(r)
  \/ \E r \in Requests, body \in ProductBodies, rev \in Readings : CreateProduct(r, body, rev)
  \/ \E r \in Requests, body \in RestockBodies, rev \in Readings : RestockProduct(r, body, rev)
  \/ \E r \in Requests, body \in ProductBodies, rev \in Readings : UpdateProduct(r, body, rev)
  \/ \E id \in TargetIds : DeleteProduct(id)
  \/ \E r \in Requests, body \in StoreNotifyBodies : NotifyStart(r, body)
  \/ \E r \in Requests, outcome \in FetchOutcomes, rev \in Readings, connected \in BOOLEAN :
       NotifyFinish(r, outcome, rev, connected)
  \/ \E c \in Subscribers : registerStreamClient(c)

Spec == Init /\ [][Next]_vars

(***************************************************************************)
(* The hub: every client of Clients may subscribe, sockets fail, the       *)
(* heartbeat intervals fire and the product list is read, while requests   *)
(* carry one body per handler and the clock stands still.                  *)
(***************************************************************************)
\* GET /api/products (server.js:205)
ListProducts ==
  /\ got' = [route |-> "products", products |-> readProducts, revision |-> revision]
  /\ UNCHANGED <<conn, timers, beats, gone, fetches, productsFile, notificationsFile, revision,
                 streamClients, stream, now, uuid, hooks, pc, req, arrivals, last, dropped,
                 cached, serial, baseQty, restockSum, events, mutations, since>>

HubProduct == Object(BasePayload)
HubRestock == Object([delta |-> Num(1)])
HubNotify ==
  Object([channel |-> Str("email"), recipient |-> Str("ops@example.com"),
          subject |-> Undefined, message |-> Str("Low stock")])

HubNext ==
  \/ \E r \in Requests : Receive(r, "create", 0)
  \/ \E r \in Requests, id \in TargetIds, k \in {"update", "restock"} : Receive(r, k, id)
  \/ \E r \in Requests : Receive(r, "notify", 0)
  \/ \E r \in Requests : getRequestBodyRejects(r)
  \/ \E r \in Requests : CreateProduct(r, HubProduct, now)
  \/ \E r \in Requests : RestockProduct(r, HubRestock, now)
  \/ \E r \in Requests : UpdateProduct(r, HubProduct, now)
  \/ \E id \in TargetIds : DeleteProduct(id)
  \/ \E r \in Requests : NotifyStart(r, HubNotify)
  \/ \E r \in Requests, connected \in BOOLEAN : NotifyFinish(r, "ok", now, connected)
  \/ \E c \in Clients : registerStreamClient(c)
  \/ \E c \in Clients : CloseStream(c)
  \/ \E c \in Clients : DestroySocket(c)
  \/ \E c \in Clients : Heartbeat(c)
  \/ ListProducts

HubSpec == Init /\ [][HubNext]_vars

(***************************************************************************)
(* The product list read between mutations while the clock moves.          *)
(***************************************************************************)
ListNext ==
  \/ Tick
  \/ \E r \in Requests : Receive(r, "create", 0)
  \/ \E r \in Requests, id \in TargetIds, k \in {"update", "restock"} : Receive(r, k, id)
  \/ \E r \in Requests : getRequestBodyRejects(r)
  \/ \E r \in Requests, rev \in Readings : CreateProduct(r, HubProduct, rev)
  \/ \E r \in Requests, rev \in Readings : RestockProduct(r, HubRestock, rev)
  \/ \E r \in Requests, rev \in Readings : UpdateProduct(r, HubProduct, rev)
  \/ \E id \in TargetIds : DeleteProduct(id)
  \/ ListProducts

ListSpec == Init /\ [][ListNext]_vars

(***************************************************************************)
(* The dispatcher with its scheduling.  The event loop runs a handler      *)
(* whose body has arrived and a handler whose fetch has settled; nothing   *)
(* makes an endpoint answer, and the runtime's fetch ends the wait.        *)
(***************************************************************************)
\* await fetch(hook, {method, headers, body}) (server.js:132-136) is given no
\* signal and no timeout of its own: with an endpoint that accepts the
\* connection and never answers, the promise stays pending until the
\* runtime's fetch gives up and rejects it.
EndpointHangs(r) ==
  /\ pc[r] = "dispatch"
  /\ hookOf(req[r].n.channel)
  /\ pc' = [pc EXCEPT ![r] = "hung"]
  /\ UNCHANGED <<hub, fetches, productsFile, notificationsFile, revision, streamClients, stream,
                 now, uuid, hooks, req, arrivals, last, dropped, cached, serial, baseQty,
                 restockSum, events, mutations, since>>

DispatchNext ==
  \/ Tick
  \/ \E r \in Requests : Receive(r, "notify", 0)
  \/ \E r \in Requests : getRequestBodyRejects(r)
  \/ \E r \in Requests, body \in NotifyBodies : NotifyStart(r, body)
  \/ \E r \in Requests, outcome \in SettledOutcomes, rev \in Readings, connected \in BOOLEAN :
       NotifyFinish(r, outcome, rev, connected)
  \/ \E r \in Requests : EndpointHangs(r)
  \/ \E c \in Subscribers : registerStreamClient(c)

DispatchSpec ==
  /\ Init
  /\ [][DispatchNext]_vars
  /\ \A r \in Requests :
       /\ WF_vars(\E body \in NotifyBodies : NotifyStart(r, body))
       /\ WF_vars(\E outcome \in SettledOutcomes, rev \in Readings, connected \in BOOLEAN :
                    NotifyFinish(r, outcome, rev, connected))

(***************************************************************************)
(* The alert evaluation on a server started over an existing product file. *)
(***************************************************************************)
Quantities == {0, 2, 4, 5, 10}

\* The record a create with this quantity stored under this id.
StoredProduct(id, quantity) ==
  productFields(id, [BasePayload EXCEPT !.productId = Str(NatToStr(id)),
                                        !.quantity = Num(quantity)], 0)

Snapshots ==
  UNION {{[i \in 1..n |-> StoredProduct(i, q[i])] : q \in [1..n -> Quantities]} :
           n \in 0..MaxProducts}

\* GET /api/alerts (server.js:167)
GetAlerts ==
  /\ got' = [route |-> "alerts", alerts |-> computeAlerts(readProducts)]
  /\ UNCHANGED <<conn, timers, beats, gone, fetches, productsFile, notificationsFile, revision,
                 streamClients, stream, now, uuid, hooks, pc, req, arrivals, last, dropped,
                 cached, serial, baseQty, restockSum, events, mutations, since>>

AlertInit ==
  /\ productsFile \in Snapshots
  /\ notificationsFile = <<>>
  /\ Listening

AlertNext == GetAlerts

AlertSpec == AlertInit /\ [][AlertNext]_vars

(***************************************************************************)
(* The history listing on a server started over an existing notification   *)
(* file.                                                                   *)
(***************************************************************************)
DefaultLimit == 20
MaxLimit == 100

\* Math.min(a, b) and Math.max(a, b): NaN if either argument is NaN
MathMin(a, b) == IF a = NaN \/ b = NaN THEN NaN ELSE IF LessThan(a, b) THEN a ELSE b
MathMax(a, b) == IF a = NaN \/ b = NaN THEN NaN ELSE IF LessThan(a, b) THEN b ELSE a

\* -v on numbers
Negate(v) ==
  IF v = NaN THEN NaN ELSE IF v.s = ".5" THEN Half(-v.n - 1) ELSE Num(-v.n)

\* ToIntegerOrInfinity(v): NaN is 0, a fraction is truncated towards 0
ToIntegerOrInfinity(v) ==
  IF v = NaN THEN 0 ELSE IF v.s = ".5" /\ v.n < 0 THEN v.n + 1 ELSE v.n

\* Array.prototype.slice(start)
Slice(array, start) ==
  LET len == Len(array)
      relativeStart == ToIntegerOrInfinity(start)
      k == IF relativeStart < 0
           THEN (IF len + relativeStart > 0 THEN len + relativeStart ELSE 0)
           ELSE (IF relativeStart < len THEN relativeStart ELSE len)
  IN  SubSeq(array, k + 1, len)

\* Array.prototype.reverse()
Reverse(array) == [i \in DOMAIN array |-> array[Len(array) + 1 - i]]

\* Number(url.searchParams.get("limit") || 20)
limitOf(param) == Number(IF Falsy(param) THEN Num(DefaultLimit) ELSE param)

\* readNotifications().slice(-Math.max(1, Math.min(limit, 100))).reverse()
listNotifications(history, param) ==
  Reverse(Slice(history, Negate(MathMax(Num(1), MathMin(limitOf(param), Num(MaxLimit))))))

\* url.searchParams.get("limit"): null when the query has no limit
LimitParams ==
  {Null, Str(""), Str("0"), Str("-5"), Str("2"), Str("2.5"), Str("100"), Str("150"),
   Str("abc")}

\* The record a notify on this channel appended under this id.
HistoryRecord(id, channel) ==
  notificationItem(id,
                   [channel |-> channel, recipient |-> "ops@example.com",
                    subject |-> Str("Inventory Alert"), message |-> "Low stock"],
                   [delivered |-> FALSE, mode |-> "log-only",
                    message |-> "Webhook not configured"],
                   0)

Histories ==
  UNION {{[i \in 1..n |-> HistoryRecord(i, ch[i])] : ch \in [1..n -> {"email", "sms"}]} :
           n \in 0..MaxHistory}
  \cup {[i \in 1..(MaxLimit + 1) |-> HistoryRecord(i, "sms")]}

\* GET /api/notifications (server.js:168-172)
GetNotifications(param) ==
  /\ got' = [route |-> "notifications", limit |-> param,
             notifications |-> listNotifications(readNotifications, param)]
  /\ UNCHANGED <<conn, timers, beats, gone, fetches, productsFile, notificationsFile, revision,
                 streamClients, stream, now, uuid, hooks, pc, req, arrivals, last, dropped,
                 cached, serial, baseQty, restockSum, events, mutations, since>>

HistoryInit ==
  /\ productsFile = <<>>
  /\ notificationsFile \in Histories
  /\ Listening

HistoryNext == \E param \in LimitParams : GetNotifications(param)

HistorySpec == HistoryInit /\ [][HistoryNext]_vars

(***************************************************************************)
(* Properties.                                                             *)
(***************************************************************************)
\* Request r's handler of the given kind sends its response in this step.
Replies(r, kind) ==
  pc[r] # "idle" /\ req[r].kind = kind /\ pc'[r] = "idle" /\ ~dropped'

\* v > 0 on a stored field
GtZero(v) ==
  v.t = "number" /\ v.s # "NaN" /\ (IF v.s = ".5" THEN v.n >= 0 ELSE v.n > 0)

PositiveInteger(v) == IsInteger(v) /\ v.n > 0

Live(id) == \E i \in DOMAIN productsFile : productsFile[i].id = id

\* C1: no two live product records carry the same business key (productId).
C1_UniqueBusinessKey ==
  \A i, j \in DOMAIN productsFile :
    i # j => productsFile[i].productId # productsFile[j].productId

\* C2: whatever the interleaving of in-flight mutation requests, the product
\* collection equals the successful requests applied one at a time, in the
\* order of their replies (no lost update).
C2_Serialized == productsFile = serial

\* A mutation has replied while another request, which arrived before that
\* mutation wrote the file, is still waiting for its body.
C2_Witness ==
  /\ \E r \in Requests :
       pc[r] = "body" /\ req[r].kind \in {"create", "update", "restock"}
  /\ cached # productsFile
  /\ last.status \in {200, 201}
  /\ last.others >= 1

\* C3: restocks with delta 1 on a live product all succeed, and the product's
\* quantity is the quantity its last create or update set plus the deltas of
\* the restocks answered 200 since, however the requests overlapped.
C3_ConcurrentRestocks ==
  /\ \A i \in DOMAIN productsFile :
       productsFile[i].quantity =
         Num(baseQty[productsFile[i].id] + restockSum[productsFile[i].id])
  /\ (last.kind = "restock" /\ last.arg = Num(1) /\ Live(last.id)) => last.status = 200

\* Two restocks with delta 1 were in flight together (both wrote after the
\* latest arrival) and the quantity went from Q to Q + 2.
C3_Witness ==
  \E i \in DOMAIN productsFile :
    /\ restockSum[productsFile[i].id] = 2
    /\ i \in DOMAIN cached
    /\ cached[i].id = productsFile[i].id
    /\ cached[i].quantity = Num(baseQty[productsFile[i].id])
    /\ productsFile[i].quantity = Num(baseQty[productsFile[i].id] + 2)
    /\ last.kind = "restock" /\ last.status = 200 /\ last.arg = Num(1)

\* C4: every revision token a publish issues is strictly greater than every
\* token issued before it.
C4_StrictlyIncreasing ==
  \A i, j \in DOMAIN events : i < j => events[i].revision < events[j].revision

\* The frames of product mutations, in the order they were published.
ProductEvents == SelectSeq(events, LAMBDA f : f.type # "notification_sent")

EventType(kind) ==
  CASE kind = "create" -> "product_created"
    [] kind = "update" -> "product_updated"
    [] kind = "restock" -> "product_restocked"
    [] kind = "delete" -> "product_deleted"

\* C5: every registered subscriber has been written exactly the events
\* published since it registered, in publication order, and the product
\* events are, one for one and in the order of the writes to the store, the
\* events of the mutation types.
C5_FanOutInOrder ==
  /\ \A c \in streamClients :
       stream[c] = <<Connected>> \o SubSeq(events, since[c] + 1, Len(events))
  /\ Len(ProductEvents) = Len(mutations)
  /\ \A i \in DOMAIN mutations :
       /\ ProductEvents[i].type = EventType(mutations[i].kind)
       /\ ProductEvents[i].ref = mutations[i].id

\* A subscriber has been written the events of two mutations of different
\* types, and nothing else.
C5_Witness ==
  \E c \in streamClients :
    /\ Len(stream[c]) = 3
    /\ Len(mutations) >= 2
    /\ stream[c][2].type = "product_created"
    /\ stream[c][3].type = "product_restocked"

\* C6: a validated create whose business key is that of a live record, and a
\* validated update whose new business key is that of a different live
\* record, is answered 409 and changes neither the product collection nor
\* the revision nor any subscriber's stream.
C6_DuplicateKeyRejected ==
  [][\A r \in Requests :
       (/\ Replies(r, "create") \/ Replies(r, "update")
        /\ last'.json = "object"
        /\ last'.status \notin {400, 404}
        /\ \E i \in DOMAIN productsFile :
             /\ productsFile[i].productId = Str(String(last'.arg))
             /\ req[r].kind = "update" => productsFile[i].id # req[r].id)
       => (/\ last'.status = 409
           /\ productsFile' = productsFile
           /\ revision' = revision
           /\ stream' = stream)]_vars

\* C7: every live product record has price > 0 and an integer quantity >= 0.
C7_PriceAndQuantity ==
  \A i \in DOMAIN productsFile :
    /\ GtZero(productsFile[i].price)
    /\ IsInteger(productsFile[i].quantity) /\ productsFile[i].quantity.n >= 0

\* The delta a restock request asked for, 1 when it named none.
AskedDelta(arg) == IF arg \in {Undefined, Null} THEN 1 ELSE Number(arg).n

\* C8: a restock answered 200 adds exactly its delta to the quantity of the
\* product, sets the product's updatedAt to the current time and publishes
\* one product_restocked event for it.
C8_RestockAddsDelta ==
  [][\A r \in Requests :
       (Replies(r, "restock") /\ last'.status = 200)
       => LET i == findIndex(productsFile, req[r].id)
          IN  /\ i # 0
              /\ productsFile'[i].quantity =
                   Num(productsFile[i].quantity.n + AskedDelta(last'.arg))
              /\ productsFile'[i].updatedAt = now
              /\ Len(events') = Len(events) + 1
              /\ events'[Len(events')].type = "product_restocked"
              /\ events'[Len(events')].ref = req[r].id]_vars

\* A restock by 5, made after the clock moved on, has been answered 200.
C8_Witness ==
  /\ last.kind = "restock" /\ last.status = 200 /\ last.arg = Num(5)
  /\ \E i \in DOMAIN productsFile :
       /\ productsFile[i].id = last.id
       /\ productsFile[i].quantity = Num(baseQty[last.id] + 5)
       /\ productsFile[i].updatedAt = 1

\* Some product's quantity differs between the two states of the step.
QuantityChanged ==
  \/ Len(productsFile') # Len(productsFile)
  \/ \E i \in DOMAIN productsFile : productsFile'[i].quantity # productsFile[i].quantity

\* C9 as claimed, on a live product (where no other rejection applies): a
\* restock whose delta is not a positive integer, a payload that supplies no
\* delta included, is answered 400 and changes no quantity.
C9_AsClaimed ==
  [][\A r \in Requests :
       (/\ Replies(r, "restock")
        /\ Live(req[r].id)
        /\ last'.json # "malformed"
        /\ \/ last'.arg \in {Undefined, Null}
           \/ ~PositiveInteger(Number(last'.arg)))
       => (last'.status = 400 /\ ~QuantityChanged)]_vars

\* C9, amended: a restock whose payload supplies a delta that is not a
\* positive integer is answered 400 and changes no quantity; a restock whose
\* payload supplies no delta is handled as a restock by 1 (200 on a live
\* product, 404 otherwise).
C9_SuppliedDeltaRejected ==
  [][\A r \in Requests :
       Replies(r, "restock") /\ last'.json # "malformed"
       => IF last'.arg \in {Undefined, Null}
          THEN last'.status = (IF Live(req[r].id) THEN 200 ELSE 404)
          ELSE ~PositiveInteger(Number(last'.arg))
               => (last'.status = 400 /\ ~QuantityChanged)]_vars

\* A restock by 0 on a live product has been answered 400.
C9_Witness ==
  /\ last.kind = "restock" /\ last.status = 400 /\ last.arg = Num(0)
  /\ Live(last.id)

\* What every completion of a validated notify request does: one record is
\* appended, (false, log-only) when the channel has no endpoint and in
\* webhook mode otherwise, and one notification_sent event follows.
Recorded(r) ==
  /\ Len(notificationsFile') = Len(notificationsFile) + 1
  /\ SubSeq(notificationsFile', 1, Len(notificationsFile)) = notificationsFile
  /\ LET item == notificationsFile'[Len(notificationsFile')]
         configured == IF req[r].n.channel = "email" THEN hooks.email ELSE hooks.sms
     IN  /\ item.channel = req[r].n.channel
         /\ item.mode = (IF configured THEN "webhook" ELSE "log-only")
         /\ item.delivered => configured
         /\ item.delivered = (item.resultMessage = "Delivered to webhook")
  /\ Len(events') = Len(events) + 1
  /\ events'[Len(events')].type = "notification_sent"
  /\ events'[Len(events')].ref = notificationsFile'[Len(notificationsFile')].id

\* The response 201 of request r is sent in this step, and the record it
\* names is delivered exactly when the channel has an endpoint that answered
\* 2xx.
Answered201(r) ==
  /\ ~dropped'
  /\ last'.kind = "notify" /\ last'.status = 201
  /\ LET item == notificationsFile'[Len(notificationsFile')]
         configured == IF req[r].n.channel = "email" THEN hooks.email ELSE hooks.sms
     IN  /\ last'.id = item.id
         /\ item.delivered = (configured /\ last'.arg = Str("ok"))

\* C10 as claimed: every notify request that passed the input checks
\* appends exactly one record, (false, log-only) when the channel has no
\* endpoint, otherwise (true, webhook) on a 2xx response and (false, webhook)
\* on any other response or a rejection, publishes one notification_sent
\* event and is answered 201.
C10_AsClaimed ==
  [][\A r \in Requests :
       (pc[r] \in {"dispatch", "hung"} /\ pc'[r] = "idle")
       => (Recorded(r) /\ Answered201(r))]_vars

\* C10, amended: every notify request that passed the input checks appends
\* exactly one record with the outcome as claimed and publishes one
\* notification_sent event; it is answered 201 if its client is still
\* connected, and if the client closed the connection during the attempt no
\* response is sent at all.
C10_NotifyAlwaysRecorded ==
  [][\A r \in Requests :
       (pc[r] \in {"dispatch", "hung"} /\ pc'[r] = "idle")
       => /\ Recorded(r)
          /\ IF dropped' THEN last' = last ELSE Answered201(r)]_vars

\* The history holds a log-only record and a failed webhook record; the
\* request of the latest record got no response, its client having gone,
\* and the request of an earlier one was answered 201.
C10_Witness ==
  /\ dropped
  /\ last.kind = "notify" /\ last.status = 201
  /\ \E i, j \in DOMAIN notificationsFile :
       /\ notificationsFile[i].mode = "log-only" /\ ~notificationsFile[i].delivered
       /\ notificationsFile[j].mode = "webhook" /\ ~notificationsFile[j].delivered
       /\ last.id \in {notificationsFile[i].id, notificationsFile[j].id}
  /\ notificationsFile[Len(notificationsFile)].id > last.id

\* C11: every dispatch request that passed validation completes, also when
\* its endpoint never answers: no request stays at its delivery attempt for
\* ever.  (C10_NotifyAlwaysRecorded has the outcome recorded at completion.)
C11_DispatchCompletes ==
  \A r \in Requests : (pc[r] \in {"dispatch", "hung"}) ~> (pc[r] = "idle")

\* A notify request whose endpoint never answered has been answered 201,
\* and its record says the attempt failed.
C11_Witness ==
  /\ last.kind = "notify" /\ last.status = 201 /\ last.arg = Str("timeout")
  /\ notificationsFile # <<>>
  /\ LET item == notificationsFile[Len(notificationsFile)]
     IN  /\ item.id = last.id
         /\ item.mode = "webhook" /\ ~item.delivered
         /\ item.resultMessage = "fetch failed"

\* C12: a subscriber whose close has been handled is in no registry, has no
\* interval left and has been written nothing since, while every subscriber
\* that is registered on an open socket has been written every event
\* published since it registered.
C12_ClosedGetsNothing ==
  /\ \A c \in Clients \ streamClients :
       /\ c \notin timers
       /\ stream[c] = <<>>
       /\ beats[c] = 0
  /\ \A c \in streamClients :
       Written(c) =>
         stream[c] = <<Connected>> \o SubSeq(events, since[c] + 1, Len(events))

\* A subscriber's close was handled, an event was published after it, and a
\* subscriber registered before that close has been written that event and
\* a heartbeat.
C12_Witness ==
  \E c \in Clients \ streamClients, d \in streamClients :
    /\ gone[c] > 0
    /\ Len(events) >= gone[c]
    /\ since[d] < gone[c] - 1
    /\ stream[d][Len(stream[d])] = events[Len(events)]
    /\ beats[d] = 1

\* C13: when an event is published while a registered subscriber's socket is
\* destroyed, every registered subscriber on an open socket is written that
\* event, and the request that published it is answered 200, 201 or 204;
\* the one request that gets no response is a notify request whose own
\* client has gone, and no product mutation is one.
C13_FailureIsLocal ==
  [][(/\ Len(events') = Len(events) + 1
      /\ \E d \in streamClients : ~Written(d))
     => /\ \A c \in streamClients :
             Written(c) => stream'[c] = Append(stream[c], events'[Len(events')])
        /\ IF dropped'
           THEN last' = last /\ events'[Len(events')].type = "notification_sent"
           ELSE last'.status \in {200, 201, 204}]_vars

\* A registered subscriber on a destroyed socket has missed the latest
\* event, which a product mutation answered 200, 201 or 204 published and
\* which another subscriber has been written.
C13_Witness ==
  \E d \in streamClients, c \in streamClients :
    /\ ~Written(d) /\ Written(c)
    /\ Len(stream[d]) < 1 + Len(events) - since[d]
    /\ Len(events) > since[c]
    /\ stream[c][Len(stream[c])] = events[Len(events)]
    /\ Len(mutations) > 0
    /\ events[Len(events)].ref = mutations[Len(mutations)].id
    /\ last.kind = mutations[Len(mutations)].kind
    /\ last.status \in {200, 201, 204}
    /\ ~dropped

\* Events published since c registered that were not written to c.
Missed(c) == 1 + Len(events) - since[c] - Len(stream[c])

\* C14: a subscriber to which the write of an event has failed is out of the
\* registry before the next event is published: no registered subscriber
\* has missed two events.
C14_EvictedOnFailure == \A c \in streamClients : Missed(c) <= 1

\* A product mutation is answered in this step.
Answers(kind) ==
  IF kind = "delete"
  THEN arrivals' = arrivals + 1 /\ pc' = pc /\ last'.kind = "delete"
  ELSE \E r \in Requests : pc[r] = "body" /\ Replies(r, kind)

\* C15: a create, update, restock or delete answered 400, 404 or 500 leaves
\* the product file, the notification file and the revision as they were
\* and writes nothing to any subscriber.
C15_RejectionChangesNothing ==
  [][(/\ \E kind \in {"create", "update", "restock", "delete"} : Answers(kind)
      /\ last'.status \in {400, 404, 500})
     => UNCHANGED <<productsFile, notificationsFile, revision, stream, events>>]_vars

\* A restock of a live product has been answered 400 while a subscriber is
\* registered.
C15_Witness ==
  /\ last.kind = "restock" /\ last.status = 400
  /\ Live(last.id)
  /\ streamClients # {}

\* The quantities of the stored records, in file order.
QuantitiesOf(products) == [i \in DOMAIN products |-> products[i].quantity.n]

\* C16: the evaluation answers with the number of records whose quantity is
\* below 5 and the number of records whose quantity is 0, which on the
\* quantities 0, 2, 4, 5, 10 are 3 and 1, and it leaves every file, the
\* revision and every stream as they were.
C16_AlertCounts ==
  [][got'.route = "alerts"
     => /\ got'.alerts.lowStockCount =
             Cardinality({i \in DOMAIN productsFile : productsFile[i].quantity.n < 5})
        /\ got'.alerts.outOfStockCount =
             Cardinality({i \in DOMAIN productsFile : productsFile[i].quantity.n = 0})
        /\ QuantitiesOf(productsFile) = <<0, 2, 4, 5, 10>>
             => /\ got'.alerts.lowStockCount = 3
                /\ got'.alerts.outOfStockCount = 1
        /\ UNCHANGED <<productsFile, notificationsFile, revision, stream, events>>]_vars

\* The evaluation has answered on the quantities 0, 2, 4, 5, 10.
C16_Witness ==
  /\ got.route = "alerts"
  /\ QuantitiesOf(productsFile) = <<0, 2, 4, 5, 10>>
  /\ got.alerts.lowStockCount = 3
  /\ got.alerts.outOfStockCount = 1
  /\ Len(got.alerts.lowStockItems) = 3

\* The most records a listing asked with this limit may carry: the limit
\* brought into 1..100, 20 when the query carries none, and at most 100
\* whatever the limit is.
Clamped(param) ==
  LET limit == limitOf(param)
  IN  IF limit = NaN THEN MaxLimit
      ELSE IF LessThan(limit, Num(1)) THEN 1
      ELSE IF LessThan(Num(MaxLimit), limit) THEN MaxLimit
      ELSE limit.n

\* C17: the listing carries the most recently appended records, the latest
\* first, and never more of them than the limit brought into 1..100.
C17_ListingClamped ==
  got.route = "notifications"
    => /\ Len(got.notifications) <= Clamped(got.limit)
       /\ \A i \in DOMAIN got.notifications :
            got.notifications[i] = notificationsFile[Len(notificationsFile) + 1 - i]

\* C18: in every state a request can be served in, each mutation written to
\* the store has had its event published and each published product event
\* is of a mutation written to the store; and a list response carries the
\* store with every mutation applied whose event has been published.
C18_PersistedBeforePublished ==
  [][/\ Len(ProductEvents') = Len(mutations')
     /\ productsFile' = serial'
     /\ (got' # got /\ got'.route = "products") => got'.products = serial']_vars

\* A list response carries the record whose creation event a subscriber has
\* been written.
C18_Witness ==
  /\ got.route = "products"
  /\ \E c \in streamClients :
       /\ Len(stream[c]) >= 2
       /\ stream[c][2].type = "product_created"
       /\ \E i \in DOMAIN got.products : got.products[i].id = stream[c][2].ref

\* C19: two list responses in a row that carry the same revision, one set by
\* a mutation after the clock left its starting value, carry the same
\* products.
C19_SameRevisionSameSnapshot ==
  [][(/\ got.route = "products" /\ got'.route = "products"
      /\ got'.revision = got.revision
      /\ got.revision > 0)
     => got'.products = got.products]_vars

\* C20: an update or restock answered 200 leaves the file with the same ids
\* at the same positions and with every record of another id as it was; a
\* delete answered 204 leaves the file without the record of that id, one
\* record shorter, and with the other records as they were and in their
\* order.
C20_OnlyThatRecord ==
  [][/\ ((Answers("update") \/ Answers("restock")) /\ last'.status = 200)
        => /\ Len(productsFile') = Len(productsFile)
           /\ \A i \in DOMAIN productsFile :
                /\ productsFile'[i].id = productsFile[i].id
                /\ productsFile[i].id # last'.id => productsFile'[i] = productsFile[i]
     /\ (Answers("delete") /\ last'.status = 204)
        => /\ Len(productsFile') = Len(productsFile) - 1
           /\ \A i \in DOMAIN productsFile' : productsFile'[i].id # last'.id
           /\ productsFile' = SelectSeq(productsFile, LAMBDA p : p.id # last'.id)]_vars

\* An update of the first of two records has been answered 200, and the
\* second record has another id.
C20_Witness ==
  /\ last.kind = "update" /\ last.status = 200
  /\ Len(productsFile) = 2
  /\ productsFile[1].id = last.id
  /\ productsFile[2].id # last.id

\* Notify requests whose handler is awaiting dispatchNotification on a
\* channel with an endpoint, and records of finished ones.
AwaitingFetch ==
  {r \in Requests : pc[r] \in {"dispatch", "hung"} /\ hookOf(req[r].n.channel)}
WebhookRecords ==
  {i \in DOMAIN notificationsFile : notificationsFile[i].mode = "webhook"}

\* C21: fetch has been called once for each notify request that passed the
\* input checks on a channel with an endpoint, whether it is still waiting
\* or has been recorded, and for no other request: never for a rejected
\* one or one on a channel without endpoint, never twice.
C21_OneAttempt ==
  /\ fetches = Cardinality(AwaitingFetch) + Cardinality(WebhookRecords)
  /\ \A i \in DOMAIN notificationsFile :
       /\ notificationsFile[i].channel \in {"email", "sms"}
       /\ notificationsFile[i].recipient # ""
       /\ notificationsFile[i].message # ""
       /\ notificationsFile[i].mode = "webhook" <=> hookOf(notificationsFile[i].channel)

\* One notify has been recorded after a failed attempt, one without any
\* attempt, and one has been rejected: fetch was called once.
C21_Witness ==
  /\ fetches = 1
  /\ last.kind = "notify" /\ last.status = 400
  /\ \E i, j \in DOMAIN notificationsFile :
       /\ notificationsFile[i].mode = "webhook" /\ ~notificationsFile[i].delivered
       /\ notificationsFile[j].mode = "log-only"

\* C22: a step either leaves the notification file as it was or is the
\* completion of a notify request's dispatch, whether or not its response
\* can be sent, and puts one record after the records the file had, which
\* stay as they were and in their order.
C22_AppendOnly ==
  [][\/ notificationsFile' = notificationsFile
     \/ /\ \E r \in Requests :
             /\ pc[r] \in {"dispatch", "hung"} /\ req[r].kind = "notify"
             /\ pc'[r] = "idle"
        /\ Len(notificationsFile') = Len(notificationsFile) + 1
        /\ SubSeq(notificationsFile', 1, Len(notificationsFile)) = notificationsFile]_vars

\* Two notifications have been recorded, and a product has been created
\* since.
C22_Witness ==
  /\ Len(notificationsFile) = 2
  /\ notificationsFile[1].id < notificationsFile[2].id
  /\ last.kind = "create" /\ last.status = 201
  /\ last.id > notificationsFile[2].id

\* The ids of the records the evaluation returned as low stock, and of the
\* records of the file it counted as out of stock.
LowStockIds == {got.alerts.lowStockItems[i].id : i \in DOMAIN got.alerts.lowStockItems}
OutOfStockIds ==
  {productsFile[i].id : i \in {j \in DOMAIN productsFile : productsFile[j].quantity.n = 0}}

\* C23 as claimed: no record is both in the low stock the evaluation
\* returns and among the records it counts as out of stock.
C23_AsClaimed ==
  got.route = "alerts" => LowStockIds \cap OutOfStockIds = {}

\* C23: every record counted as out of stock is also in the low stock the
\* evaluation returns, so that lowStockCount is the number of records of
\* quantity 1 to 4 plus outOfStockCount.
C23_OutOfStockIsLowStock ==
  got.route = "alerts"
    => /\ OutOfStockIds \subseteq LowStockIds
       /\ Cardinality(OutOfStockIds) = got.alerts.outOfStockCount
       /\ got.alerts.lowStockCount =
            got.alerts.outOfStockCount
            + Cardinality({i \in DOMAIN productsFile :
                             productsFile[i].quantity.n \in 1..4})

\* The evaluation has answered on a file with a record of quantity 0 and a
\* record of quantity 2, and both are in the low stock it returned.
C23_Witness ==
  /\ got.route = "alerts"
  /\ OutOfStockIds # {}
  /\ \E i \in DOMAIN got.alerts.lowStockItems : got.alerts.lowStockItems[i].quantity = Num(0)
  /\ \E i \in DOMAIN got.alerts.lowStockItems : got.alerts.lowStockItems[i].quantity = Num(2)
  /\ got.alerts.outOfStockCount < got.alerts.lowStockCount

\* The calls of randomUUID made by creates; every other call is made by a
\* notify request on its way to the reply 201.
CreatedIds == {i \in DOMAIN mutations : mutations[i].kind = "create"}

\* C24: the history holds one record for each notify request answered 201,
\* each under its own id, however the requests in flight interleaved.
C24_NoLostAppend ==
  /\ Len(notificationsFile) = uuid - Cardinality(CreatedIds)
  /\ \A i, j \in DOMAIN notificationsFile :
       notificationsFile[i].id = notificationsFile[j].id => i = j

\* Two notify requests have been answered 201 and recorded, the second of
\* them while another validated notify request was awaiting its attempt,
\* which it still is.
C24_Witness ==
  /\ Len(notificationsFile) = 2
  /\ last.kind = "notify" /\ last.status = 201
  /\ last.id = notificationsFile[2].id
  /\ last.others >= 1
  /\ \E r \in Requests : pc[r] = "dispatch"

====
